---- MODULE Spec2Model ----
(***************************************************************************)
(* Model of email_autoresponder.py: one run of main(), i.e. the per-label, *)
(* per-message loop of process_unread_messages over a Gmail mailbox, with  *)
(* the Gmail and OpenAI services as nondeterministic environments.         *)
(* Strings whose contents matter (subjects, generated text) are sequences  *)
(* of one-character strings; opaque strings are TLA+ strings.              *)
(***************************************************************************)
EXTENDS Integers, Sequences, FiniteSets, TLC

(* ---------------------------- bounds ----------------------------------- *)
\* number of entries of LABELS_TO_PROCESS the run iterates over
MaxLabels == 2
\* number of messages in the mailbox
MaxMsgs == 2
\* number of consecutive invocations of the script
MaxRuns == 2

\* latest instant of the clock and of a stored expiry
MaxTime == 3

(* ------------------------- program constants --------------------------- *)
LABELS_TO_PROCESS ==
    <<"Leads_New", "Clients_OpenQuestions", "Finance_Bookings", "Event_Changes">>

Min(a, b) == IF a < b THEN a ELSE b

\* the configured sequence, cut to the bound
Labels == SubSeq(LABELS_TO_PROCESS, 1, Min(MaxLabels, Len(LABELS_TO_PROCESS)))

LabelSet == {Labels[i] : i \in 1..Len(Labels)}

user_id == "me"

MsgIds == 1..MaxMsgs

(* ------------------------------ strings -------------------------------- *)
RePrefix == <<"R", "e", ":", " ">>

IsSpace(c) == c \in {" ", "\n", "\t"}

RECURSIVE LStrip(_)
LStrip(s) == IF s # <<>> /\ IsSpace(Head(s)) THEN LStrip(Tail(s)) ELSE s

RECURSIVE RStrip(_)
RStrip(s) ==
    IF s # <<>> /\ IsSpace(s[Len(s)]) THEN RStrip(SubSeq(s, 1, Len(s) - 1)) ELSE s

\* str.strip()
Strip(s) == RStrip(LStrip(s))

StartsWith(s, p) == Len(s) >= Len(p) /\ SubSeq(s, 1, Len(p)) = p

(* ------------------------- the mailbox (Gmail) ------------------------- *)
JaneFrom == "Jane Doe <jane@example.com>"
BoothSnippet == "Hi, do you have a booth for June 5th?"

SubjHi == <<"H", "i">>

Hdr(n, v) == [name |-> n, value |-> v]

\* header lists a metadata get can return (restricted to Subject and From):
\* no header, an empty subject, the plain case, a subject that is a reply
HeaderSeq ==
    << <<>>,
       <<Hdr("Subject", <<>>)>>,
       <<Hdr("From", JaneFrom), Hdr("Subject", SubjHi)>>,
       <<Hdr("Subject", RePrefix \o SubjHi), Hdr("From", JaneFrom)>> >>

HeaderLists == {HeaderSeq[i] : i \in DOMAIN HeaderSeq}

\* snippets the service provides: an excerpt, or nothing
SnippetSeq == <<BoothSnippet, "">>

Snippets == {SnippetSeq[i] : i \in DOMAIN SnippetSeq}

\* the sets of labels a message bears: none, one, or all of them
LabelIdSets == {{}, LabelSet} \cup {{l} : l \in LabelSet}

\* a message: unread with one of these sets, or read and bearing all labels
MessageValues ==
    [labelIds : LabelIdSets, unread : {TRUE}, headers : HeaderLists,
     snippet : Snippets]
    \cup [labelIds : {LabelSet}, unread : {FALSE}, headers : HeaderLists,
          snippet : Snippets]

\* the mailboxes a run starts from: consecutive messages carry consecutive
\* header lists of HeaderSeq, starting anywhere, and consecutive snippets of
\* SnippetSeq
Mailboxes ==
    {mb \in [MsgIds -> MessageValues] :
        /\ \E r \in 0..(Len(HeaderSeq) - 1) :
             \A m \in MsgIds : mb[m].headers = HeaderSeq[((m + r) % Len(HeaderSeq)) + 1]
        /\ \A m \in MsgIds : mb[m].snippet = SnippetSeq[((m - 1) % Len(SnippetSeq)) + 1]}

\* dict.get(key, default)
DictGet(d, k, default) == IF k \in DOMAIN d THEN d[k] ELSE default

RECURSIVE MatchingFrom(_, _, _)
MatchingFrom(mb, label, m) ==
    IF m > MaxMsgs THEN <<>>
    ELSE (IF label \in mb[m].labelIds /\ mb[m].unread THEN <<[id |-> m]>> ELSE <<>>)
         \o MatchingFrom(mb, label, m + 1)

\* users().messages().list(labelIds=[label], q="is:unread"): the key
\* "messages" is absent from the response when nothing matches
ListResponse(mb, label) ==
    LET found == MatchingFrom(mb, label, 1)
    IN  IF found = <<>> THEN [resultSizeEstimate |-> 0]
        ELSE [messages |-> found, resultSizeEstimate |-> Len(found)]

\* users().messages().get(format="metadata", metadataHeaders=[Subject, From])
GetResponse(mb, m) ==
    IF mb[m].headers = <<>>
    THEN [id |-> m, payload |-> [mimeType |-> "text/plain"], snippet |-> mb[m].snippet]
    ELSE [id |-> m, payload |-> [mimeType |-> "text/plain", headers |-> mb[m].headers],
          snippet |-> mb[m].snippet]

\* {h["name"]: h["value"] for h in ...}: a later header of a name wins
RECURSIVE HeaderDict(_)
HeaderDict(hs) ==
    IF hs = <<>> THEN <<>>
    ELSE LET last == hs[Len(hs)]
             rest == HeaderDict(SubSeq(hs, 1, Len(hs) - 1))
         IN  [n \in DOMAIN rest \cup {last.name} |->
                 IF n = last.name THEN last.value ELSE rest[n]]

(* ----------------------- failures of remote calls ---------------------- *)
\* ways a mail-service call fails: an error status (API error, permission
\* denial, expired authorization), no response, an unparsable response
MailFailures == {"http_error_status", "network_failure", "malformed_response"}

\* the exception execute() raises for each kind of failure: HttpError for a
\* non-2xx HTTP response, a transport exception when no response arrives, a
\* JSON decoding exception for an unparsable body
ExceptionOf(kind) ==
    CASE kind = "http_error_status" -> "HttpError"
      [] kind = "network_failure" -> "ServerNotFoundError"
      [] kind = "malformed_response" -> "JSONDecodeError"

GenerationFailures == {"generation_error", "malformed_response"}

GenExceptionOf(kind) ==
    CASE kind = "generation_error" -> "OpenAIError"
      [] kind = "malformed_response" -> "KeyError"

\* a bare `except Exception` in place of `except HttpError`
CaughtAnything(e) == e = e

\* except HttpError
Caught(e) == e = "HttpError"

\* lines 111-128: what the generation call is given, the three fields the
\* prompt embeds and the model named in the request
Prompt(from_header, subj, body_snippet) ==
    [model |-> "gpt-3.5-turbo", sender |-> from_header, subject |-> subj,
     snippet |-> body_snippet]

\* raw contents of the generation service's answer to a prompt: a text that
\* quotes the fields of the prompt, bare or wrapped in white space
RawReplies(prompt) ==
    LET text == <<"O", "k", " ", prompt.sender>> \o prompt.subject
                \o <<prompt.snippet>>
    IN  { text, <<" ">> \o text \o <<"\n">> }

(* --------------------------- create_message ---------------------------- *)
\* create_message, had it avoided a repeated reply prefix
create_message_NoRepeat(from_email, to_email, subj, message_text) ==
    [To |-> to_email, From |-> from_email,
     Subject |-> IF StartsWith(subj, RePrefix) THEN subj ELSE RePrefix \o subj,
     Body |-> message_text]

\* the EmailMessage built by create_message
create_message(from_email, to_email, subj, message_text) ==
    [To |-> to_email, From |-> from_email, Subject |-> RePrefix \o subj,
     Body |-> message_text]

NoDraft == [To |-> "", From |-> "", Subject |-> <<>>, Body |-> <<>>]

(* ------------------- create_message: the encoded payload ---------------- *)
\* the printable ASCII characters, in the order of their codes 32..126 (the
\* grave accent, which no text of the model contains, is spelt out)
AsciiTable ==
    <<" ", "!", "\"", "#", "$", "%", "&", "'", "(", ")", "*", "+", ",",
      "-", ".", "/", "0", "1", "2", "3", "4", "5", "6", "7", "8", "9", ":",
      ";", "<", "=", ">", "?", "@", "A", "B", "C", "D", "E", "F", "G", "H",
      "I", "J", "K", "L", "M", "N", "O", "P", "Q", "R", "S", "T", "U", "V",
      "W", "X", "Y", "Z", "[", "\\", "]", "^", "_", "grave", "a", "b", "c",
      "d", "e", "f", "g", "h", "i", "j", "k", "l", "m", "n", "o", "p", "q",
      "r", "s", "t", "u", "v", "w", "x", "y", "z", "{", "|", "}", "~">>

\* the byte of an ASCII character
Ord(c) ==
    IF c = "\n" THEN 10
    ELSE IF c = "\t" THEN 9
    ELSE 31 + (CHOOSE i \in DOMAIN AsciiTable : AsciiTable[i] = c)

Chr(n) ==
    IF n = 10 THEN "\n" ELSE IF n = 9 THEN "\t" ELSE AsciiTable[n - 31]

\* str.encode / bytes.decode of ASCII text
ToBytes(str) == [i \in DOMAIN str |-> Ord(str[i])]

ToStr(bytes) == [i \in DOMAIN bytes |-> Chr(bytes[i])]

\* the URL-safe base64 alphabet
B64Chars ==
    <<"A", "B", "C", "D", "E", "F", "G", "H", "I", "J", "K", "L", "M", "N",
      "O", "P", "Q", "R", "S", "T", "U", "V", "W", "X", "Y", "Z", "a", "b",
      "c", "d", "e", "f", "g", "h", "i", "j", "k", "l", "m", "n", "o", "p",
      "q", "r", "s", "t", "u", "v", "w", "x", "y", "z", "0", "1", "2", "3",
      "4", "5", "6", "7", "8", "9", "-", "_">>

B64Char(v) == B64Chars[v + 1]

B64Val(c) == (CHOOSE i \in DOMAIN B64Chars : B64Chars[i] = c) - 1

RECURSIVE urlsafe_b64encode(_)
\* base64.urlsafe_b64encode: three bytes become four characters, padded by "="
urlsafe_b64encode(b) ==
    IF b = <<>> THEN <<>>
    ELSE IF Len(b) = 1
    THEN LET n == b[1] * 65536
         IN  <<B64Char(n \div 262144), B64Char((n \div 4096) % 64), "=", "=">>
    ELSE IF Len(b) = 2
    THEN LET n == b[1] * 65536 + b[2] * 256
         IN  <<B64Char(n \div 262144), B64Char((n \div 4096) % 64),
               B64Char((n \div 64) % 64), "=">>
    ELSE LET n == b[1] * 65536 + b[2] * 256 + b[3]
         IN  <<B64Char(n \div 262144), B64Char((n \div 4096) % 64),
               B64Char((n \div 64) % 64), B64Char(n % 64)>>
             \o urlsafe_b64encode(SubSeq(b, 4, Len(b)))

RECURSIVE urlsafe_b64decode(_)
\* base64.urlsafe_b64decode, the inverse the mail service applies
urlsafe_b64decode(c) ==
    IF c = <<>> THEN <<>>
    ELSE LET v3 == IF c[3] = "=" THEN 0 ELSE B64Val(c[3])
             v4 == IF c[4] = "=" THEN 0 ELSE B64Val(c[4])
             n == B64Val(c[1]) * 262144 + B64Val(c[2]) * 4096 + v3 * 64 + v4
         IN  (IF c[3] = "=" THEN <<n \div 65536>>
              ELSE IF c[4] = "=" THEN <<n \div 65536, (n \div 256) % 256>>
              ELSE <<n \div 65536, (n \div 256) % 256, n % 256>>)
             \o urlsafe_b64decode(SubSeq(c, 5, Len(c)))

EndsWithNewline(text) == text # <<>> /\ text[Len(text)] = "\n"

\* msg.set_content(message_text): the text part is its lines, each ended by a
\* line feed (texts whose only line break is the line feed)
set_content(message_text) ==
    IF EndsWithNewline(message_text) THEN message_text ELSE message_text \o <<"\n">>

\* the header fields set_content adds
MimeHeaders ==
    <<"C", "o", "n", "t", "e", "n", "t", "-", "T", "y", "p", "e", ":", " ",
      "t", "e", "x", "t", "/", "p", "l", "a", "i", "n", ";", " ", "c", "h",
      "a", "r", "s", "e", "t", "=", "\"", "u", "t", "f", "-", "8", "\"",
      "\n", "C", "o", "n", "t", "e", "n", "t", "-", "T", "r", "a", "n",
      "s", "f", "e", "r", "-", "E", "n", "c", "o", "d", "i", "n", "g", ":",
      " ", "7", "b", "i", "t", "\n", "M", "I", "M", "E", "-", "V", "e",
      "r", "s", "i", "o", "n", ":", " ", "1", ".", "0", "\n">>

\* one header line of the serialised message (values short enough not to fold)
HeaderLine(name, value) ==
    name \o <<":">> \o (IF value = <<>> THEN <<>> ELSE <<" ">> \o value) \o <<"\n">>

\* as_bytes, had it left out the empty line that ends the header
as_bytes_NoSeparator(msg) ==
    ToBytes(HeaderLine(<<"T", "o">>, msg.To)
            \o HeaderLine(<<"F", "r", "o", "m">>, msg.From)
            \o HeaderLine(<<"S", "u", "b", "j", "e", "c", "t">>, msg.Subject)
            \o MimeHeaders \o set_content(msg.Body))

\* msg.as_bytes(): the headers in the order they were set, an empty line, the
\* text part
as_bytes(msg) ==
    ToBytes(HeaderLine(<<"T", "o">>, msg.To)
            \o HeaderLine(<<"F", "r", "o", "m">>, msg.From)
            \o HeaderLine(<<"S", "u", "b", "j", "e", "c", "t">>, msg.Subject)
            \o MimeHeaders \o <<"\n">> \o set_content(msg.Body))

\* lines 158-159: the payload handed to the mail service
encode_raw(msg) == [raw |-> urlsafe_b64encode(as_bytes(msg))]

\* index of the first c in s, 0 when there is none
IndexOf(s, c) ==
    IF \E i \in DOMAIN s : s[i] = c
    THEN CHOOSE i \in DOMAIN s : s[i] = c /\ \A j \in 1..(i - 1) : s[j] # c
    ELSE 0

RECURSIVE SkipBlanks(_)
SkipBlanks(s) == IF s # <<>> /\ Head(s) \in {" ", "\t"} THEN SkipBlanks(Tail(s)) ELSE s

RECURSIVE ParseMessage(_, _)
\* reading a serialised message back: header lines up to the first empty
\* line, each split at its first colon, then the body
ParseMessage(text, fields) ==
    LET nl == IndexOf(text, "\n")
        line == IF nl = 0 THEN text ELSE SubSeq(text, 1, nl - 1)
        rest == IF nl = 0 THEN <<>> ELSE SubSeq(text, nl + 1, Len(text))
        colon == IndexOf(line, ":")
    IN  IF text = <<>> THEN [headers |-> fields, body |-> <<>>]
        ELSE IF line = <<>> THEN [headers |-> fields, body |-> rest]
        ELSE IF colon = 0 THEN [headers |-> fields, body |-> text]
        ELSE ParseMessage(rest,
                 Append(fields, Hdr(SubSeq(line, 1, colon - 1),
                                    SkipBlanks(SubSeq(line, colon + 1, Len(line))))))

\* what the receiver of a payload reads in it
DecodePayload(payload) ==
    LET parsed == ParseMessage(ToStr(urlsafe_b64decode(payload.raw)), <<>>)
        fields == HeaderDict(parsed.headers)
    IN  [To |-> DictGet(fields, <<"T", "o">>, <<>>),
         From |-> DictGet(fields, <<"F", "r", "o", "m">>, <<>>),
         Subject |-> DictGet(fields, <<"S", "u", "b", "j", "e", "c", "t">>, <<>>),
         Body |-> parsed.body]

\* arguments create_message is applied to
CodecFrom == { <<>>, <<"m", "e">> }
CodecTo == { <<>>, <<"a", "@", "b">>, <<"J", " ", "<", "j", "@", "e", ">">> }
CodecSubject == { <<>>, SubjHi, RePrefix \o SubjHi, <<"a", "?", " ", "b">> }
CodecText ==
    { <<>>, <<"O", "k">>, <<"O", "k", "\n">>, <<"a", "\n", "b">>,
      <<"O", "k", ".", " ", "T", "e", "a", "m">> }

(* ------------------------------- state --------------------------------- *)
VARIABLES
    mailbox,        \* Gmail: message id -> labels, unread flag, headers, snippet
    api_key,        \* whether OPENAI_API_KEY is set in the environment
    pc,             \* position of the run
    labelIdx,       \* index of `label` in the for loop over the labels
    messages,       \* ids returned by the scan of the current label
    msgIdx,         \* index of `message` in the for loop over messages
    subject, sender, snippet,   \* locals extracted from the fetched message
    reply_body,     \* local: the generated reply
    draft_message,  \* local: the composed draft
    calls,          \* remote calls issued so far, in order
    printed,        \* error lines printed so far
    drafts,         \* drafts the mail service has stored in this run
    exc,            \* exception that escaped process_unread_messages
    exitStatus,     \* exit status of the process, -1 while running
    run,            \* number of the current invocation of the script
    auth,           \* get_gmail_service: its position, token.json, creds
    codec           \* create_message applied on its own: input, payload, decoding

vars == <<mailbox, api_key, pc, labelIdx, messages, msgIdx, subject, sender,
          snippet, reply_body, draft_message, calls, printed, drafts, exc,
          exitStatus, run, auth, codec>>

label == Labels[labelIdx]

msg_id == messages[msgIdx].id

\* one remote call: the service, the endpoint, the label being processed, the
\* message it is for (0 for a scan), its distinguishing parameter, its outcome
Call(service, op, l, m, param, outcome) ==
    [service |-> service, op |-> op, label |-> l, id |-> m, param |-> param,
     outcome |-> outcome, run |-> run]

\* the service handle has been built; create_message is not under test
AuthBuilt == [pc |-> "built"]

CodecIdle == [pc |-> "idle"]

Init ==
    /\ mailbox \in Mailboxes
    /\ api_key \in BOOLEAN
    /\ pc = "list"
    /\ labelIdx = 1
    /\ messages = <<>>
    /\ msgIdx = 0
    /\ subject = <<>>
    /\ sender = ""
    /\ snippet = ""
    /\ reply_body = <<>>
    /\ draft_message = NoDraft
    /\ calls = <<>>
    /\ printed = <<>>
    /\ drafts = <<>>
    /\ exc = "none"
    /\ exitStatus = -1
    /\ run = 1
    /\ auth = AuthBuilt
    /\ codec = CodecIdle

\* the for loop over the labels moves on, or the function returns
NextLabel ==
    IF labelIdx < Len(Labels)
    THEN labelIdx' = labelIdx + 1 /\ pc' = "list"
    ELSE labelIdx' = labelIdx /\ pc' = "returned"

\* an exception raised inside the try block of the current label
Raise(e) ==
    IF Caught(e)
    THEN /\ printed' = Append(printed, [label |-> label, error |-> e])
         /\ exc' = exc
         /\ NextLabel
    ELSE /\ pc' = "raised"
         /\ exc' = e
         /\ UNCHANGED <<printed, labelIdx>>

\* the message loop, had it stopped one message short of the scan's end
NextMessage_SkipLast ==
    IF msgIdx + 1 < Len(messages)
    THEN msgIdx' = msgIdx + 1 /\ pc' = "get" /\ labelIdx' = labelIdx
    ELSE msgIdx' = msgIdx /\ NextLabel

\* the for loop over the messages moves on, or the label is finished
NextMessage ==
    IF msgIdx < Len(messages)
    THEN msgIdx' = msgIdx + 1 /\ pc' = "get" /\ labelIdx' = labelIdx
    ELSE msgIdx' = msgIdx /\ NextLabel

\* the scan, had it read response["messages"] without a default
ListMessages_NoDefault ==
    /\ pc = "list"
    /\ \E outcome \in {"ok"} \cup MailFailures :
         /\ calls' = Append(calls, Call("gmail", "users.messages.list", label, 0, "is:unread", outcome))
         /\ IF outcome = "ok" /\ "messages" \in DOMAIN ListResponse(mailbox, label)
            THEN /\ messages' = ListResponse(mailbox, label).messages
                 /\ msgIdx' = 1 /\ pc' = "get" /\ labelIdx' = labelIdx
                 /\ UNCHANGED <<printed, exc>>
            ELSE /\ Raise(IF outcome = "ok" THEN "KeyError" ELSE ExceptionOf(outcome))
                 /\ UNCHANGED <<messages, msgIdx>>
    /\ UNCHANGED <<mailbox, api_key, subject, sender, snippet, reply_body,
                   draft_message, drafts, exitStatus>>
    /\ UNCHANGED <<run, auth, codec>>

\* lines 177-184: scan the current label
ListMessages ==
    /\ pc = "list"
    /\ \E outcome \in {"ok"} \cup MailFailures :
         /\ calls' = Append(calls, Call("gmail", "users.messages.list", label, 0, "is:unread", outcome))
         /\ IF outcome = "ok"
            THEN /\ messages' = DictGet(ListResponse(mailbox, label), "messages", <<>>)
                 /\ IF messages' = <<>>
                    THEN msgIdx' = msgIdx /\ NextLabel
                    ELSE msgIdx' = 1 /\ pc' = "get" /\ labelIdx' = labelIdx
                 /\ UNCHANGED <<printed, exc>>
            ELSE /\ Raise(ExceptionOf(outcome))
                 /\ UNCHANGED <<messages, msgIdx>>
    /\ UNCHANGED <<mailbox, api_key, subject, sender, snippet, reply_body,
                   draft_message, drafts, exitStatus>>
    /\ UNCHANGED <<run, auth, codec>>

\* the fetch, had a failure been caught per message: report, go on with the
\* next message of the label
GetMessage_SkipOnError ==
    /\ pc = "get"
    /\ \E outcome \in {"ok"} \cup MailFailures :
         /\ calls' = Append(calls, Call("gmail", "users.messages.get", label, msg_id, "metadata", outcome))
         /\ IF outcome = "ok"
            THEN LET full_msg == GetResponse(mailbox, msg_id)
                     headers == HeaderDict(DictGet(full_msg.payload, "headers", <<>>))
                 IN  /\ subject' = DictGet(headers, "Subject", <<>>)
                     /\ sender' = DictGet(headers, "From", "")
                     /\ snippet' = DictGet(full_msg, "snippet", "")
                     /\ pc' = "generate"
                     /\ UNCHANGED <<printed, exc, labelIdx, msgIdx>>
            ELSE IF Caught(ExceptionOf(outcome))
            THEN /\ printed' = Append(printed, [label |-> label, error |-> ExceptionOf(outcome)])
                 /\ NextMessage
                 /\ UNCHANGED <<subject, sender, snippet, exc>>
            ELSE /\ Raise(ExceptionOf(outcome))
                 /\ UNCHANGED <<subject, sender, snippet, msgIdx>>
    /\ UNCHANGED <<mailbox, api_key, messages, reply_body, draft_message,
                   drafts, exitStatus>>
    /\ UNCHANGED <<run, auth, codec>>

\* the fetch, had a missing From header left the previous message's sender in
\* place
GetMessage_Stale ==
    /\ pc = "get"
    /\ \E outcome \in {"ok"} \cup MailFailures :
         /\ calls' = Append(calls, Call("gmail", "users.messages.get", label, msg_id, "metadata", outcome))
         /\ IF outcome = "ok"
            THEN LET full_msg == GetResponse(mailbox, msg_id)
                     headers == HeaderDict(DictGet(full_msg.payload, "headers", <<>>))
                 IN  /\ subject' = DictGet(headers, "Subject", <<>>)
                     /\ sender' = DictGet(headers, "From", sender)
                     /\ snippet' = DictGet(full_msg, "snippet", "")
                     /\ pc' = "generate"
                     /\ UNCHANGED <<printed, exc, labelIdx>>
            ELSE /\ Raise(ExceptionOf(outcome))
                 /\ UNCHANGED <<subject, sender, snippet>>
    /\ UNCHANGED <<mailbox, api_key, messages, msgIdx, reply_body, draft_message,
                   drafts, exitStatus>>
    /\ UNCHANGED <<run, auth, codec>>


\* lines 185-201: fetch the metadata of the current message
GetMessage ==
    /\ pc = "get"
    /\ \E outcome \in {"ok"} \cup MailFailures :
         /\ calls' = Append(calls, Call("gmail", "users.messages.get", label, msg_id, "metadata", outcome))
         /\ IF outcome = "ok"
            THEN LET full_msg == GetResponse(mailbox, msg_id)
                     headers == HeaderDict(DictGet(full_msg.payload, "headers", <<>>))
                 IN  /\ subject' = DictGet(headers, "Subject", <<>>)
                     /\ sender' = DictGet(headers, "From", "")
                     /\ snippet' = DictGet(full_msg, "snippet", "")
                     /\ pc' = "generate"
                     /\ UNCHANGED <<printed, exc, labelIdx>>
            ELSE /\ Raise(ExceptionOf(outcome))
                 /\ UNCHANGED <<subject, sender, snippet>>
    /\ UNCHANGED <<mailbox, api_key, messages, msgIdx, reply_body, draft_message,
                   drafts, exitStatus>>
    /\ UNCHANGED <<run, auth, codec>>

\* the generation step, had it tried a failed generation a second time
GenerateReply_Retry ==
    /\ pc = "generate"
    /\ IF ~api_key
       THEN /\ Raise("RuntimeError")
            /\ UNCHANGED <<calls, reply_body, draft_message>>
       ELSE \E outcome \in {"ok"} \cup GenerationFailures :
              /\ calls' = Append(calls, Call("openai", "ChatCompletion.create", label, msg_id,
                                          Prompt(sender, subject, snippet), outcome))
              /\ IF outcome = "ok"
                 THEN \E raw \in RawReplies(Prompt(sender, subject, snippet)) :
                        /\ reply_body' = Strip(raw)
                        /\ draft_message' =
                             create_message(user_id, sender, subject, reply_body')
                        /\ pc' = "create"
                        /\ UNCHANGED <<printed, exc, labelIdx>>
                 ELSE IF calls[Len(calls)].op = "ChatCompletion.create"
                 THEN /\ Raise(GenExceptionOf(outcome))
                      /\ UNCHANGED <<reply_body, draft_message>>
                 ELSE UNCHANGED <<pc, printed, exc, labelIdx, reply_body, draft_message>>
    /\ UNCHANGED <<mailbox, api_key, messages, msgIdx, subject, sender, snippet,
                   drafts, exitStatus>>
    /\ UNCHANGED <<run, auth, codec>>

\* lines 203-204: generate_reply, then create_message
GenerateReply ==
    /\ pc = "generate"
    /\ IF ~api_key
       THEN /\ Raise("RuntimeError")
            /\ UNCHANGED <<calls, reply_body, draft_message>>
       ELSE \E outcome \in {"ok"} \cup GenerationFailures :
              /\ calls' = Append(calls, Call("openai", "ChatCompletion.create", label, msg_id,
                                          Prompt(sender, subject, snippet), outcome))
              /\ IF outcome = "ok"
                 THEN \E raw \in RawReplies(Prompt(sender, subject, snippet)) :
                        /\ reply_body' = Strip(raw)
                        /\ draft_message' =
                             create_message(user_id, sender, subject, reply_body')
                        /\ pc' = "create"
                        /\ UNCHANGED <<printed, exc, labelIdx>>
                 ELSE /\ Raise(GenExceptionOf(outcome))
                      /\ UNCHANGED <<reply_body, draft_message>>
    /\ UNCHANGED <<mailbox, api_key, messages, msgIdx, subject, sender, snippet,
                   drafts, exitStatus>>
    /\ UNCHANGED <<run, auth, codec>>

\* the draft sink, had it sent the message instead of storing a draft
CreateDraft_Send ==
    /\ pc = "create"
    /\ \E outcome \in {"ok"} \cup MailFailures :
         /\ calls' = Append(calls, Call("gmail", "users.messages.send", label, msg_id, "message", outcome))
         /\ IF outcome = "ok"
            THEN /\ NextMessage
                 /\ UNCHANGED <<printed, exc>>
            ELSE /\ Raise(ExceptionOf(outcome))
                 /\ UNCHANGED msgIdx
    /\ UNCHANGED <<mailbox, api_key, messages, subject, sender, snippet,
                   reply_body, draft_message, drafts, exitStatus>>
    /\ UNCHANGED <<run, auth, codec>>

\* the draft sink, had it marked the message as read once its draft is stored
CreateDraft_MarkRead ==
    /\ pc = "create"
    /\ \E outcome \in {"ok"} \cup MailFailures :
         /\ calls' = Append(calls, Call("gmail", "users.drafts.create", label, msg_id, "message", outcome))
         /\ IF outcome = "ok"
            THEN /\ drafts' = Append(drafts, [source |-> msg_id, label |-> label,
                                              message |-> draft_message])
                 /\ mailbox' = [mailbox EXCEPT ![msg_id].unread = FALSE]
                 /\ NextMessage
                 /\ UNCHANGED <<printed, exc>>
            ELSE /\ Raise(ExceptionOf(outcome))
                 /\ UNCHANGED <<mailbox, drafts, msgIdx>>
    /\ UNCHANGED <<api_key, messages, subject, sender, snippet,
                   reply_body, draft_message, exitStatus>>
    /\ UNCHANGED <<run, auth, codec>>

\* the draft sink, had a failed creation removed the drafts already stored for
\* the label
CreateDraft_Rollback ==
    /\ pc = "create"
    /\ \E outcome \in {"ok"} \cup MailFailures :
         /\ calls' = Append(calls, Call("gmail", "users.drafts.create", label, msg_id, "message", outcome))
         /\ IF outcome = "ok"
            THEN /\ drafts' = Append(drafts, [source |-> msg_id, label |-> label,
                                              message |-> draft_message])
                 /\ NextMessage
                 /\ UNCHANGED <<printed, exc>>
            ELSE /\ Raise(ExceptionOf(outcome))
                 /\ drafts' = SelectSeq(drafts, LAMBDA d : d.label # label)
                 /\ UNCHANGED msgIdx
    /\ UNCHANGED <<mailbox, api_key, messages, subject, sender, snippet,
                   reply_body, draft_message, exitStatus>>
    /\ UNCHANGED <<run, auth, codec>>


\* line 206: users().drafts().create
CreateDraft ==
    /\ pc = "create"
    /\ \E outcome \in {"ok"} \cup MailFailures :
         /\ calls' = Append(calls, Call("gmail", "users.drafts.create", label, msg_id, "message", outcome))
         /\ IF outcome = "ok"
            THEN /\ drafts' = Append(drafts, [source |-> msg_id, label |-> label,
                                              message |-> draft_message])
                 /\ NextMessage
                 /\ UNCHANGED <<printed, exc>>
            ELSE /\ Raise(ExceptionOf(outcome))
                 /\ UNCHANGED <<drafts, msgIdx>>
    /\ UNCHANGED <<mailbox, api_key, messages, subject, sender, snippet,
                   reply_body, draft_message, exitStatus>>
    /\ UNCHANGED <<run, auth, codec>>

\* lines 212-219: main returns (status 0) or dies of the exception (status 1)
MainExit ==
    /\ pc \in {"returned", "raised"}
    /\ exitStatus' = IF pc = "returned" THEN 0 ELSE 1
    /\ pc' = "exited"
    /\ UNCHANGED <<mailbox, api_key, labelIdx, messages, msgIdx, subject, sender,
                   snippet, reply_body, draft_message, calls, printed, drafts, exc>>
    /\ UNCHANGED <<run, auth, codec>>

Next == ListMessages \/ GetMessage \/ GenerateReply \/ CreateDraft \/ MainExit

Spec == Init /\ [][Next]_vars

(* ------------------------ consecutive invocations ---------------------- *)
\* lines 218-219: the script is started again after a run in which nothing
\* failed; the new process has fresh locals, Gmail keeps the mailbox and the
\* drafts, and nothing else is carried over
RunAgain ==
    /\ pc = "exited"
    /\ exitStatus = 0
    /\ run < MaxRuns
    /\ printed = <<>>
    /\ \A i \in DOMAIN calls : calls[i].outcome = "ok"
    /\ run' = run + 1
    /\ pc' = "list"
    /\ labelIdx' = 1
    /\ messages' = <<>>
    /\ msgIdx' = 0
    /\ subject' = <<>>
    /\ sender' = ""
    /\ snippet' = ""
    /\ reply_body' = <<>>
    /\ draft_message' = NoDraft
    /\ exc' = "none"
    /\ exitStatus' = -1
    /\ UNCHANGED <<mailbox, api_key, calls, printed, drafts, auth, codec>>

\* the runs that are repeated: the key is set, the first message has an
\* empty subject
InitRuns == Init /\ api_key /\ mailbox[1].headers = HeaderSeq[2]

NextRuns == Next \/ RunAgain

SpecRuns == InitRuns /\ [][NextRuns]_vars

(* ----------------------- create_message on its own --------------------- *)
\* the state of the pipeline
pipeline == <<mailbox, api_key, pc, labelIdx, messages, msgIdx, subject, sender,
              snippet, reply_body, draft_message, calls, printed, drafts, exc,
              exitStatus, run>>

\* no run of the pipeline is in progress
PipelineIdle ==
    /\ mailbox = [m \in MsgIds |->
                    [labelIds |-> {}, unread |-> TRUE,
                     headers |-> HeaderSeq[(m % Len(HeaderSeq)) + 1],
                     snippet |-> SnippetSeq[((m - 1) % Len(SnippetSeq)) + 1]]]
    /\ api_key = TRUE
    /\ pc = "idle"
    /\ labelIdx = 1
    /\ messages = <<>>
    /\ msgIdx = 0
    /\ subject = <<>>
    /\ sender = ""
    /\ snippet = ""
    /\ reply_body = <<>>
    /\ draft_message = NoDraft
    /\ calls = <<>>
    /\ printed = <<>>
    /\ drafts = <<>>
    /\ exc = "none"
    /\ exitStatus = -1
    /\ run = 1

InitCodec ==
    /\ PipelineIdle
    /\ auth = AuthBuilt
    /\ codec \in [pc : {"input"}, from_email : CodecFrom, to_email : CodecTo,
                   subject : CodecSubject, message_text : CodecText,
                   payload : {[raw |-> <<>>]}, decoded : {NoDraft}]

\* lines 152-159: create_message builds the message and returns its payload
CodecCompose ==
    /\ codec.pc = "input"
    /\ codec' = [codec EXCEPT
                    !.pc = "encoded",
                    !.payload = encode_raw(create_message(codec.from_email,
                                    codec.to_email, codec.subject, codec.message_text))]
    /\ UNCHANGED <<pipeline, auth>>

\* the receiver decodes the payload
CodecDecode ==
    /\ codec.pc = "encoded"
    /\ codec' = [codec EXCEPT !.pc = "decoded", !.decoded = DecodePayload(codec.payload)]
    /\ UNCHANGED <<pipeline, auth>>

NextCodec == CodecCompose \/ CodecDecode

SpecCodec == InitCodec /\ [][NextCodec]_vars

(* ------------------------- get_gmail_service --------------------------- *)
\* token.json: absent, unreadable as authorized-user data, or credentials
\* with or without an access token and a refresh token, and an expiry
\* (0: none)
NoFile == [kind |-> "absent"]

BadFile == [kind |-> "malformed"]

StoredCredentials ==
    [kind : {"creds"}, token : BOOLEAN, refresh_token : BOOLEAN, expiry : 0..MaxTime]

TokenFiles == {NoFile, BadFile} \cup StoredCredentials

\* creds: Optional[Credentials] = None
NoCreds == [kind |-> "none"]

\* Credentials.expired: an expiry is set and has been reached
Expired(c, now) == c.expiry # 0 /\ now >= c.expiry

\* Credentials.valid: an access token is held and has not expired
Valid(c, now) == c.token /\ ~Expired(c, now)

\* what refresh() and run_local_server() leave in the credentials
Fresh(now, rt) == [kind |-> "creds", token |-> TRUE, refresh_token |-> rt, expiry |-> now + 1]

InitAuth ==
    /\ PipelineIdle
    /\ codec = CodecIdle
    /\ \E f \in TokenFiles, t \in 1..MaxTime :
         auth = [pc |-> "start", now |-> t, file |-> f, file0 |-> f, creds |-> NoCreds,
                 refreshes |-> 0, flows |-> 0, writes |-> 0,
                 refresh_ok |-> FALSE, flow_ok |-> FALSE, exc |-> "none"]

\* lines 64-69: creds starts as None and is read from token.json if it exists
AuthLoad ==
    /\ auth.pc = "start"
    /\ auth' = IF auth.file = NoFile THEN [auth EXCEPT !.pc = "check"]
               ELSE IF auth.file = BadFile
               THEN [auth EXCEPT !.pc = "raised", !.exc = "ValueError"]
               ELSE [auth EXCEPT !.pc = "check", !.creds = auth.file]
    /\ UNCHANGED <<pipeline, codec>>

\* lines 71-72, had every invalid credential gone to the interactive flow
AuthCheck_NeverRefresh ==
    /\ auth.pc = "check"
    /\ auth' = IF auth.creds = NoCreds \/ ~Valid(auth.creds, auth.now)
               THEN [auth EXCEPT !.pc = "flow"]
               ELSE [auth EXCEPT !.pc = "build"]
    /\ UNCHANGED <<pipeline, codec>>

\* lines 71-72 and 74: the two tests that choose between refresh, interactive
\* flow and the stored credentials as they are
AuthCheck ==
    /\ auth.pc = "check"
    /\ auth' = IF auth.creds = NoCreds \/ ~Valid(auth.creds, auth.now)
               THEN IF /\ auth.creds # NoCreds
                       /\ Expired(auth.creds, auth.now)
                       /\ auth.creds.refresh_token
                    THEN [auth EXCEPT !.pc = "refresh"]
                    ELSE [auth EXCEPT !.pc = "flow"]
               ELSE [auth EXCEPT !.pc = "build"]
    /\ UNCHANGED <<pipeline, codec>>

\* line 73: creds.refresh(Request()) succeeds or raises
AuthRefresh ==
    /\ auth.pc = "refresh"
    /\ \E outcome \in {"ok", "RefreshError"} :
         auth' = IF outcome = "ok"
                 THEN [auth EXCEPT !.pc = "save", !.refreshes = @ + 1, !.refresh_ok = TRUE,
                                   !.creds = Fresh(auth.now, TRUE)]
                 ELSE [auth EXCEPT !.pc = "raised", !.refreshes = @ + 1, !.exc = outcome]
    /\ UNCHANGED <<pipeline, codec>>

\* lines 75-78: the interactive flow hands over new credentials, or raises
\* (no credentials.json, authorization not granted)
AuthFlow ==
    /\ auth.pc = "flow"
    /\ \E outcome \in {"ok", "FileNotFoundError", "AccessDeniedError"} :
         IF outcome = "ok"
         THEN \E rt \in BOOLEAN :
                auth' = [auth EXCEPT !.pc = "save", !.flows = @ + 1, !.flow_ok = TRUE,
                                     !.creds = Fresh(auth.now, rt)]
         ELSE auth' = [auth EXCEPT !.pc = "raised", !.flows = @ + 1, !.exc = outcome]
    /\ UNCHANGED <<pipeline, codec>>

\* lines 80-81: token.json is rewritten with the credentials
AuthSave ==
    /\ auth.pc = "save"
    /\ auth' = [auth EXCEPT !.pc = "build", !.file = auth.creds, !.writes = @ + 1]
    /\ UNCHANGED <<pipeline, codec>>

\* line 82: the service handle is built from the credentials
AuthBuild ==
    /\ auth.pc = "build"
    /\ auth' = [auth EXCEPT !.pc = "built"]
    /\ UNCHANGED <<pipeline, codec>>

NextAuth == AuthLoad \/ AuthCheck \/ AuthRefresh \/ AuthFlow \/ AuthSave \/ AuthBuild

SpecAuth == InitAuth /\ [][NextAuth]_vars

(* ======================================================================= *)
(* Properties                                                              *)
(* ======================================================================= *)
ListOp == "users.messages.list"
GetOp == "users.messages.get"
DraftOp == "users.drafts.create"
GenOp == "ChatCompletion.create"

LabelIndex(l) == CHOOSE j \in 1..Len(Labels) : Labels[j] = l

Failed(i) == calls[i].outcome # "ok"

\* a call for label l is issued after call i
ScannedAfter(i, l) ==
    \E k \in DOMAIN calls : k > i /\ calls[k].op = ListOp /\ calls[k].label = l

\* every label configured after that of call i is scanned after call i
LaterLabelsScanned(i) ==
    \A j \in 1..Len(Labels) :
        j > LabelIndex(calls[i].label) => ScannedAfter(i, Labels[j])

PrintedFor(l) == {k \in DOMAIN printed : printed[k].label = l}

Finished == pc = "exited"

\* C1: when the generation call fails for message M of label L, no draft is
\* created for M under L, and every label configured after L is still scanned
\* before the run ends
C1_GenerationFailureIsolated ==
    Finished =>
        \A i \in DOMAIN calls :
            (calls[i].op = GenOp /\ calls[i].outcome = "generation_error") =>
                /\ ~\E k \in DOMAIN calls :
                       /\ k > i /\ calls[k].op = DraftOp
                       /\ calls[k].label = calls[i].label /\ calls[k].id = calls[i].id
                /\ LaterLabelsScanned(i)

\* C2: with the API key absent, no mail-service call is ever made
C2_NoMailCallWithoutKey ==
    ~api_key => \A i \in DOMAIN calls : calls[i].service # "gmail"

\* C3: when the scan of label L fails, no get, generate or create-draft call is
\* made for L, exactly one error naming L is reported, and every later label is
\* scanned
C3_ScanFailureIsolated ==
    Finished =>
        \A i \in DOMAIN calls :
            (calls[i].op = ListOp /\ Failed(i)) =>
                /\ \A k \in DOMAIN calls :
                       calls[k].label = calls[i].label => calls[k].op = ListOp
                /\ Cardinality(PrintedFor(calls[i].label)) = 1
                /\ LaterLabelsScanned(i)

\* C4: at most one draft-creation call is attempted for any message in a run
C4_AtMostOneDraftPerMessage ==
    \A m \in MsgIds :
        Cardinality({i \in DOMAIN calls : calls[i].op = DraftOp /\ calls[i].id = m}) <= 1

\* C5: a failed mail-service call (of any kind) made while processing label L is
\* reported with L's name and does not end the run: no exception escapes
C5_MailFailureCaughtAtLabel ==
    \A i \in DOMAIN calls :
        (calls[i].service = "gmail" /\ Failed(i)) =>
            /\ PrintedFor(calls[i].label) # {}
            /\ exc = "none"
            /\ pc # "raised"
            /\ Finished => LaterLabelsScanned(i)

HasLabelledUnread(l) == \E m \in MsgIds : mailbox[m].unread /\ l \in mailbox[m].labelIds

LastCall == calls[Len(calls)]

\* C6: with the API key absent, an attempted generation raises an error that
\* is not caught or reported at the label: it escapes, the run ends with it at
\* the current label, no generation or draft call is made and no draft exists
C6_MissingKeyFatal ==
    ~api_key =>
        /\ drafts = <<>>
        /\ \A i \in DOMAIN calls : calls[i].op \notin {GenOp, DraftOp}
        /\ \A k \in DOMAIN printed : printed[k].error # "RuntimeError"
        /\ pc # "create"
        /\ (calls # <<>> /\ LastCall.op = GetOp /\ LastCall.outcome = "ok") =>
              /\ pc \in {"generate", "raised", "exited"}
              /\ pc # "generate" =>
                    /\ exc = "RuntimeError"
                    /\ labelIdx = LabelIndex(LastCall.label)
                    /\ \A i \in DOMAIN calls :
                           calls[i].op = ListOp => LabelIndex(calls[i].label) <= labelIdx
              /\ Finished => exitStatus = 1

\* C6 witness: the run died of the missing key at a label before the last one,
\* whose scan would have returned a message
C6_Witness ==
    /\ Finished /\ ~api_key /\ exc = "RuntimeError"
    /\ labelIdx < Len(Labels)
    /\ HasLabelledUnread(Labels[Len(Labels)])

EmptyScan(i) ==
    calls[i].op = ListOp /\ calls[i].outcome = "ok" /\ ~HasLabelledUnread(calls[i].label)

\* C7: after a scan that returns no message, no get, generate or create-draft
\* call is made for that label, no error is reported for it, and the run goes
\* on to the next configured label (or returns normally after the last one)
C7_EmptyScanSkipsLabel ==
    \A i \in DOMAIN calls :
        EmptyScan(i) =>
            LET j == LabelIndex(calls[i].label)
            IN  /\ \A k \in DOMAIN calls :
                       calls[k].label = calls[i].label => calls[k].op = ListOp
                /\ PrintedFor(calls[i].label) = {}
                /\ IF j < Len(Labels)
                   THEN IF i < Len(calls)
                        THEN calls[i + 1].op = ListOp /\ calls[i + 1].label = Labels[j + 1]
                        ELSE pc = "list" /\ labelIdx = j + 1
                   ELSE i = Len(calls) /\ pc \in {"returned", "exited"} /\ exc = "none"

\* C7 witness: an empty scan of a label was followed by the processing of a
\* message of the next label, up to its draft
C7_Witness ==
    /\ Finished
    /\ \E i \in DOMAIN calls :
         /\ EmptyScan(i)
         /\ \E k \in DOMAIN calls : k > i /\ calls[k].op = DraftOp /\ calls[k].outcome = "ok"

\* C8: the only mail-service operations ever invoked are list, get in the
\* metadata format, and create-draft; nothing is sent
C8_OnlyListGetCreateDraft ==
    \A i \in DOMAIN calls :
        calls[i].service = "gmail" =>
            /\ calls[i].op \in {ListOp, GetOp, DraftOp}
            /\ calls[i].op = GetOp => calls[i].param = "metadata"

\* C8 witness: a finished run in which each of the three operations succeeded
C8_Witness ==
    /\ Finished /\ drafts # <<>>
    /\ \A o \in {ListOp, GetOp, DraftOp} :
           \E i \in DOMAIN calls : calls[i].op = o /\ calls[i].outcome = "ok"

\* the subject of message m as the mail service holds it: the value of its
\* Subject header, empty when it has none
SubjectOfMessage(m) ==
    LET hs == mailbox[m].headers
        at == {k \in DOMAIN hs : hs[k].name = "Subject"}
    IN  IF at = {} THEN <<>>
        ELSE hs[CHOOSE k \in at : \A k2 \in at : k2 <= k].value

\* C9: the Subject of the draft built for a fetched message M is "Re: "
\* followed by M's subject, whatever that subject is
C9_SubjectIsRePlusSubject ==
    /\ pc = "create" => draft_message.Subject = RePrefix \o SubjectOfMessage(msg_id)
    /\ \A k \in DOMAIN drafts :
           drafts[k].message.Subject = RePrefix \o SubjectOfMessage(drafts[k].source)

\* C9 witness: drafts exist for a message whose subject already began with
\* "Re: " (prefix repeated) and for a message without Subject header ("Re: ")
C9_Witness ==
    /\ \E k \in DOMAIN drafts :
         /\ StartsWith(SubjectOfMessage(drafts[k].source), RePrefix)
         /\ drafts[k].message.Subject = RePrefix \o RePrefix \o SubjHi
    /\ \E k \in DOMAIN drafts :
         /\ mailbox[drafts[k].source].headers = <<>>
         /\ drafts[k].message.Subject = RePrefix

IsListCall(c) == c.op = ListOp

ScannedLabels ==
    LET scans == SelectSeq(calls, IsListCall)
    IN  [k \in 1..Len(scans) |-> scans[k].label]

\* C10: a finished run has exit status 0 and has scanned each configured label
\* exactly once, in the configured order
C10_ExitZeroAllLabelsScanned ==
    Finished => exitStatus = 0 /\ ScannedLabels = Labels

RECURSIVE CallsOfRun(_, _)
\* the calls of run r among the first n calls, without the run number
CallsOfRun(r, n) ==
    IF n = 0 THEN <<>>
    ELSE CallsOfRun(r, n - 1) \o
         (IF calls[n].run = r
          THEN <<[op |-> calls[n].op, label |-> calls[n].label, id |-> calls[n].id,
                  outcome |-> calls[n].outcome]>>
          ELSE <<>>)

DraftCallsOfRun(r) ==
    Cardinality({i \in DOMAIN calls : calls[i].run = r /\ calls[i].op = DraftOp})

SameDraft(d, e) ==
    /\ d.source = e.source /\ d.label = e.label
    /\ d.message.To = e.message.To /\ d.message.Subject = e.message.Subject

\* C11: when a failure-free run is followed by another failure-free run over
\* the same mailbox, the later run issues the same scans and the same calls
\* for the same messages, and stores one more draft for every (label, message)
\* the first run drafted
C11_SecondRunDuplicatesDrafts ==
    (Finished /\ run >= 2 /\ \A i \in DOMAIN calls : calls[i].outcome = "ok") =>
        LET n1 == DraftCallsOfRun(1)
        IN  /\ CallsOfRun(run, Len(calls)) = CallsOfRun(1, Len(calls))
            /\ Len(drafts) = run * n1
            /\ \A k \in 1..n1 : SameDraft(drafts[(run - 1) * n1 + k], drafts[k])

\* C11 witness: the second run has finished and doubled the two drafts of the
\* first
C11_Witness ==
    /\ Finished /\ run = 2 /\ \A i \in DOMAIN calls : calls[i].outcome = "ok"
    /\ DraftCallsOfRun(1) >= 2
    /\ Len(drafts) = 2 * DraftCallsOfRun(1)

CaughtAtMessage(i) ==
    /\ calls[i].op \in {GetOp, DraftOp}
    /\ Failed(i)
    /\ Caught(ExceptionOf(calls[i].outcome))

\* C13: once a failure is caught at a message of label L, the run makes no
\* further call for L (none for a later message of L, no retry of the failed
\* call): the next call, if any, is the scan of the next label
C13_CaughtFailureEndsLabel ==
    \A i \in DOMAIN calls :
        CaughtAtMessage(i) =>
            /\ \A k \in DOMAIN calls :
                   (k > i /\ calls[k].run = calls[i].run) => calls[k].label # calls[i].label
            /\ i < Len(calls) =>
                   /\ calls[i + 1].op = ListOp
                   /\ LabelIndex(calls[i + 1].label) = LabelIndex(calls[i].label) + 1
            /\ i = Len(calls) => pc \in {"list", "returned", "exited"}

\* C13 witness: a failure was caught at a message that was not the last of its
\* label's scan, and the run went on to draft a reply in a later label
C13_Witness ==
    /\ Finished
    /\ \E i \in DOMAIN calls :
         /\ CaughtAtMessage(i)
         /\ \E m \in MsgIds :
              m > calls[i].id /\ mailbox[m].unread /\ calls[i].label \in mailbox[m].labelIds
         /\ \E k \in DOMAIN calls : k > i /\ calls[k].op = DraftOp /\ calls[k].outcome = "ok"

\* the latest scan among the first i calls, 0 when there is none
RECURSIVE LastScanUpTo(_)
LastScanUpTo(i) ==
    IF i = 0 THEN 0
    ELSE IF calls[i].op = ListOp THEN i ELSE LastScanUpTo(i - 1)

SameMessage(c, d) == c.label = d.label /\ c.id = d.id /\ c.run = d.run

CallsFor(op, c) == {k \in DOMAIN calls : calls[k].op = op /\ SameMessage(calls[k], c)}

\* C14: a create-draft call comes right after the one generation call for its
\* message, which succeeded and came right after the one get for that message,
\* which succeeded; before them is the successful scan of their label, and
\* every call since that scan is a call for a message of that label
C14_CallsInPipelineOrder ==
    \A i \in DOMAIN calls :
        calls[i].op = DraftOp =>
            /\ i >= 4
            /\ calls[i - 1].op = GenOp /\ calls[i - 1].outcome = "ok"
            /\ SameMessage(calls[i - 1], calls[i])
            /\ calls[i - 2].op = GetOp /\ calls[i - 2].outcome = "ok"
            /\ SameMessage(calls[i - 2], calls[i])
            /\ Cardinality(CallsFor(GenOp, calls[i])) = 1
            /\ Cardinality(CallsFor(GetOp, calls[i])) = 1
            /\ Cardinality(CallsFor(DraftOp, calls[i])) = 1
            /\ LET j == LastScanUpTo(i)
               IN  /\ j > 0 /\ j <= i - 3
                   /\ calls[j].outcome = "ok"
                   /\ calls[j].label = calls[i].label /\ calls[j].run = calls[i].run
                   /\ \A k \in (j + 1)..i :
                          /\ calls[k].label = calls[i].label
                          /\ calls[k].run = calls[i].run

\* C14 witness: a finished run stored drafts for two messages of one label and
\* for a message of another label
C14_Witness ==
    /\ Finished
    /\ \E i, j, k \in DOMAIN calls :
         /\ i < j /\ j < k
         /\ calls[i].op = DraftOp /\ calls[j].op = DraftOp /\ calls[k].op = DraftOp
         /\ calls[i].outcome = "ok" /\ calls[j].outcome = "ok" /\ calls[k].outcome = "ok"
         /\ calls[i].label = calls[j].label /\ calls[i].id # calls[j].id
         /\ calls[k].label # calls[i].label

\* the messages a successful scan of label l returns, in order
Scanned(l) == DictGet(ListResponse(mailbox, l), "messages", <<>>)

\* the (label, message) pairs the scans of labels n.. return, in scan order
RECURSIVE ScanPairs(_)
ScanPairs(n) ==
    IF n > Len(Labels) THEN <<>>
    ELSE [m \in 1..Len(Scanned(Labels[n])) |-> <<Labels[n], Scanned(Labels[n])[m].id>>]
         \o ScanPairs(n + 1)

\* the (label, message) pairs of the first n calls that are create-draft calls
RECURSIVE DraftPairs(_)
DraftPairs(n) ==
    IF n = 0 THEN <<>>
    ELSE IF calls[n].op = DraftOp
         THEN Append(DraftPairs(n - 1), <<calls[n].label, calls[n].id>>)
         ELSE DraftPairs(n - 1)

FailureFree ==
    /\ Finished /\ exitStatus = 0 /\ printed = <<>>
    /\ \A i \in DOMAIN calls : calls[i].outcome = "ok"

\* C15: a create-draft call is for an id the scan of the label in progress
\* returned; a run without failure makes one create-draft call per scanned
\* (label, message) pair, in scan order
C15_DraftsFollowScans ==
    /\ \A i \in DOMAIN calls :
         calls[i].op = DraftOp =>
            LET j == LastScanUpTo(i)
            IN  /\ j > 0
                /\ calls[j].label = calls[i].label
                /\ calls[j].outcome = "ok"
                /\ \E m \in DOMAIN Scanned(calls[i].label) :
                       Scanned(calls[i].label)[m].id = calls[i].id
    /\ FailureFree => DraftPairs(Len(calls)) = ScanPairs(1)

\* C15 witness: a run without failure whose scans returned two messages under
\* one label and a message under another
C15_Witness ==
    /\ FailureFree
    /\ Len(DraftPairs(Len(calls))) >= 3
    /\ \E l \in LabelSet : Len(Scanned(l)) >= 2

FromOfMessage(m) ==
    LET hs == mailbox[m].headers
        at == {k \in DOMAIN hs : hs[k].name = "From"}
    IN  IF at = {} THEN ""
        ELSE hs[CHOOSE k \in at : \A k2 \in at : k2 <= k].value

\* what the generation call for message m has to be given
PromptOfMessage(m) == Prompt(FromOfMessage(m), SubjectOfMessage(m), mailbox[m].snippet)

\* the trimmed texts the generation service answers for message m
TrimmedRepliesFor(m) == {Strip(raw) : raw \in RawReplies(PromptOfMessage(m))}

DraftIsFor(d, m) ==
    /\ d.To = FromOfMessage(m)
    /\ d.From = user_id
    /\ d.Body \in TrimmedRepliesFor(m)

IsPrefix(s, t) == Len(s) <= Len(t) /\ SubSeq(t, 1, Len(s)) = s

\* C17: no step of a run removes or alters a draft already stored, whatever
\* fails afterwards: the stored drafts before a step are a prefix of the
\* stored drafts after it
C17_DraftsOnlyGrow == [][IsPrefix(drafts, drafts')]_vars

\* C17 witness: a draft was stored, then a call for a later message of the
\* same label failed and a call under a later label failed, and the draft is
\* still there
C17_Witness ==
    \E i, j, k \in DOMAIN calls :
        /\ i < j /\ j < k
        /\ calls[i].op = DraftOp /\ calls[i].outcome = "ok"
        /\ Failed(j) /\ calls[j].label = calls[i].label /\ calls[j].id # calls[i].id
        /\ Failed(k) /\ LabelIndex(calls[k].label) > LabelIndex(calls[i].label)
        /\ \E d \in DOMAIN drafts :
               drafts[d].source = calls[i].id /\ drafts[d].label = calls[i].label

\* the stored credentials can be refreshed: expired, with a refresh token
StoredRefreshable ==
    /\ auth.file0 \in StoredCredentials
    /\ Expired(auth.file0, auth.now)
    /\ auth.file0.refresh_token

StoredValid == auth.file0 \in StoredCredentials /\ Valid(auth.file0, auth.now)

AuthDone == auth.pc \in {"built", "raised"}

\* C18: the interactive flow runs only without a stored token or with stored
\* credentials that are invalid and not refreshable; refreshable credentials
\* are refreshed and the flow is not run; when the function is done the token
\* file has been written, once and with the new credentials, exactly if a
\* refresh or an interactive authorization was completed, and it is as it was
\* otherwise, in particular when the stored credentials were valid
C18_CredentialAcquisition ==
    /\ auth.flows > 0 =>
          \/ auth.file0 = NoFile
          \/ /\ auth.file0 \in StoredCredentials
             /\ ~Valid(auth.file0, auth.now)
             /\ ~Expired(auth.file0, auth.now) \/ ~auth.file0.refresh_token
    /\ StoredRefreshable =>
          /\ auth.flows = 0 /\ auth.pc # "flow"
          /\ auth.pc \in {"save", "build", "built", "raised"} => auth.refreshes = 1
    /\ auth.writes <= 1
    /\ auth.writes = 1 => (auth.refresh_ok \/ auth.flow_ok) /\ auth.file = auth.creds
    /\ auth.writes = 0 => auth.file = auth.file0
    /\ AuthDone => (auth.writes = 1 <=> (auth.refresh_ok \/ auth.flow_ok))
    /\ StoredValid => auth.writes = 0 /\ auth.flows = 0 /\ auth.refreshes = 0

\* C18 witness: stored credentials that had expired and held a refresh token
\* were refreshed without the interactive flow, and the token file rewritten
C18_Witness ==
    /\ auth.pc = "built"
    /\ StoredRefreshable
    /\ auth.refreshes = 1 /\ auth.flows = 0
    /\ auth.writes = 1 /\ auth.file # auth.file0

====
